---- MODULE Spec2Model ----
(***************************************************************************)
(* A model of the dial engine of gosrt (srt/dial.go): the deadline         *)
(* arithmetic, address resolution and filtering, the serial race           *)
(* (dialSerial) and the Happy-Eyeballs parallel race (dialParallel); and   *)
(* of ListenContext with the SRTListener it returns.                       *)
(*                                                                         *)
(* Time.  Instants (time.Time) and durations (time.Duration) are integers  *)
(* counted in units of 100ms.  The zero time.Time is 0; every instant of    *)
(* the running clock is > 0.                                               *)
(***************************************************************************)
EXTENDS Integers, Sequences, FiniteSets, TLC

VARIABLES
    now,      \* the clock (time.Now())
    in,       \* the Dialer, the arguments and the environment of one DialContext call
    dc,       \* the state of that DialContext call
    pd,       \* one call of partialDeadline: arguments and result
    ln,       \* one ListenContext call, the listener it returns and what it accepted
    task,     \* the dialSerial runs: of DialContext itself ("main") and of the racers
    orch,     \* dialParallel's own state: its loop, the two results, what it returns
    timer,    \* fallbackTimer
    cerr,     \* ctx.Err() of the dial's context ("parent") and of the racers' sub-contexts
    returned, \* whether the channel `returned` is closed
    conns,    \* the connections established: open, closed (and by whom)
    log,      \* history: racers started, attempts made, results received, cancellation
    sf        \* one sendFile call: its reader, the loop of poll.SendFile, its results

engineVars == <<task, orch, timer, cerr, returned, conns, log>>
vars == <<now, in, sf, ln, dc, pd, task, orch, timer, cerr, returned, conns, log>>

----------------------------------------------------------------------------
(* Bounds of the model *)

\* Longest candidate list the name lookup returns.
MaxAddrs == 3
\* Largest |Timeout| of a Dialer, and spread of the instants drawn.
MaxTimeout == 3
\* Largest time remaining handed to partialDeadline (100 = 10s).
MaxRemaining == 100
\* Largest number of remaining addresses handed to partialDeadline.
MaxRemainingAddrs == 4

----------------------------------------------------------------------------
(* Errors *)

NoError == "nil"
ErrTimeout == "Timeout"
errMissingAddress == "MissingAddress"
errNoSuitableAddress == "NoSuitableAddress"
errMismatched == "MismatchedAddressType"
errUnknownNetwork == "UnknownNetwork"
errLookup == "LookupFailed"

----------------------------------------------------------------------------
(* time.Time and the deadline arithmetic *)

ZeroTime == 0
IsZero(t) == t = ZeroTime
Before(a, b) == a < b

\* 2 * time.Second
saneMinimum == 20
\* 300 * time.Millisecond
defaultFallbackDelay == 3

\* minNonzeroTime with the comparison the wrong way round.
minNonzeroTime_later(a, b) ==
    IF IsZero(a) THEN b
    ELSE IF IsZero(b) \/ Before(b, a) THEN a
    ELSE b

minNonzeroTime(a, b) ==
    IF IsZero(a) THEN b
    ELSE IF IsZero(b) \/ Before(a, b) THEN a
    ELSE b

\* A context's deadline: ctx.Deadline() returns (t, ok).
NoDeadline == [ok |-> FALSE, t |-> ZeroTime]

\* Dialer.deadline(ctx, now)
deadline(d, ctx, tnow) ==
    LET e1 == IF d.Timeout # 0 THEN tnow + d.Timeout ELSE ZeroTime
        e2 == IF ctx.ok THEN minNonzeroTime(e1, ctx.t) ELSE e1
    IN  minNonzeroTime(e2, d.Deadline)

\* context.WithDeadline(parent, t): a parent deadline that is already earlier
\* is kept.
WithDeadline(parent, t) ==
    IF parent.ok /\ Before(parent.t, t) THEN parent ELSE [ok |-> TRUE, t |-> t]

\* The context DialContext goes on with (lines 269-276).
dialCtx(d, ctx, tnow) ==
    LET dl == deadline(d, ctx, tnow)
    IN  IF ~IsZero(dl) /\ (~ctx.ok \/ Before(dl, ctx.t))
        THEN WithDeadline(ctx, dl)
        ELSE ctx

\* partialDeadline without the sane minimum: the plain even share.
partialDeadline_evenShare(tnow, dl, addrsRemaining) ==
    IF IsZero(dl) THEN [t |-> dl, err |-> NoError]
    ELSE IF dl - tnow <= 0 THEN [t |-> ZeroTime, err |-> ErrTimeout]
    ELSE [t |-> tnow + ((dl - tnow) \div addrsRemaining), err |-> NoError]

\* partialDeadline never reporting that the time has run out.
partialDeadline_noTimeout(tnow, dl, addrsRemaining) ==
    IF IsZero(dl) \/ dl - tnow <= 0 THEN [t |-> dl, err |-> NoError]
    ELSE partialDeadline_evenShare(tnow, dl, addrsRemaining)

\* partialDeadline granting the sane minimum whatever time remains.
partialDeadline_minimumOnly(tnow, dl, addrsRemaining) ==
    IF IsZero(dl) THEN [t |-> dl, err |-> NoError]
    ELSE IF dl - tnow <= 0 THEN [t |-> ZeroTime, err |-> ErrTimeout]
    ELSE LET timeout == (dl - tnow) \div addrsRemaining
         IN  [t |-> tnow + (IF timeout < saneMinimum THEN saneMinimum
                            ELSE timeout),
              err |-> NoError]

\* partialDeadline(now, deadline, addrsRemaining): [t, err]
partialDeadline(tnow, dl, addrsRemaining) ==
    IF IsZero(dl) THEN [t |-> dl, err |-> NoError]
    ELSE LET timeRemaining == dl - tnow
         IN  IF timeRemaining <= 0 THEN [t |-> ZeroTime, err |-> ErrTimeout]
             ELSE LET timeout == timeRemaining \div addrsRemaining
                      granted == IF timeout < saneMinimum
                                 THEN IF timeRemaining < saneMinimum
                                      THEN timeRemaining
                                      ELSE saneMinimum
                                 ELSE timeout
                  IN  [t |-> tnow + granted, err |-> NoError]

\* fallbackDelay without the default.
fallbackDelay_noDefault(d) == d.FallbackDelay

\* Dialer.fallbackDelay()
fallbackDelay(d) ==
    IF d.FallbackDelay > 0 THEN d.FallbackDelay ELSE defaultFallbackDelay

----------------------------------------------------------------------------
(* Addresses.  An IP is one of the shapes net.IP distinguishes: nil, the   *)
(* unspecified addresses 0.0.0.0 and ::, a 4-byte IPv4 address, an IPv4    *)
(* address in its 16-byte form, an IPv6 address.  An SRTAddr is an IP and  *)
(* a port; the port tells the candidates of one list apart.                *)

IPShapes == {"nil", "v4zero", "v6zero", "v4", "v4in6", "v6"}

To4(ip) == ip \in {"v4zero", "v4", "v4in6"}      \* ip.To4() != nil
To16(ip) == ip # "nil"                            \* ip.To16() != nil
IsUnspecified(ip) == ip \in {"v4zero", "v6zero"}

SRTAddr(ip, port) == [IP |-> ip, Port |-> port]

\* SRTAddr.isWildcard (the receiver is not nil)
isWildcard(a) == a.IP = "nil" \/ IsUnspecified(a.IP)

\* SRTAddr.matchAddrFamily(x)
matchAddrFamily(a, x) ==
    \/ To4(a.IP) /\ To4(x)
    \/ To16(a.IP) /\ ~To4(a.IP) /\ To16(x) /\ ~To4(x)

\* A local-address hint (Dialer.LocalAddr, a net.Addr): the nil interface, a
\* nil *SRTAddr, an *SRTAddr, or an address of another network.
NilHint == [type |-> "nil", IP |-> "nil"]
NilPtrHint == [type |-> "nilSRTAddr", IP |-> "nil"]
OtherHint == [type |-> "other", IP |-> "v4"]
SRTHint(ip) == [type |-> "SRTAddr", IP |-> ip]
Hints == {NilHint, NilPtrHint, OtherHint} \cup {SRTHint(ip) : ip \in IPShapes}

HintNetwork(h) == IF h.type = "other" THEN "tcp" ELSE "srt"
HintIsSRT(h) == h.type \in {"nilSRTAddr", "SRTAddr"}
\* isWildcard of the hint, a nil receiver included
HintWildcard(h) == h.type = "nilSRTAddr" \/ isWildcard(h)

isIPv4(a) == To4(a.IP)

\* addrs.partition(isIPv4): (matching, non-matching), order kept
partition(addrs) ==
    [primaries |-> SelectSeq(addrs, isIPv4),
     fallbacks |-> SelectSeq(addrs, LAMBDA a : ~isIPv4(a))]

----------------------------------------------------------------------------
(* Resolution *)

Networks == {"srt", "srt4", "srt6", "tcp"}
Addresses == {"", "host:9000"}

\* parseNetwork
parseNetwork(network) ==
    IF network \in {"srt", "srt4", "srt6"}
    THEN [afnet |-> network, err |-> NoError]
    ELSE [afnet |-> "", err |-> errUnknownNetwork]

\* The candidate lists of length 1..MaxAddrs; the i-th candidate has port i.
CandidateLists ==
    UNION { { [i \in 1..n |-> SRTAddr(f[i], i)] : f \in [1..n -> IPShapes] }
            : n \in 1..MaxAddrs }

FamilyOK(afnet, a) ==
    CASE afnet = "srt4" -> To4(a.IP)
      [] afnet = "srt6" -> To16(a.IP) /\ ~To4(a.IP)
      [] OTHER -> TRUE

\* What Resolver.internetAddrList can answer for a network: an error, or a
\* non-empty list of candidates of the network's family (an empty host gives
\* the single candidate with a nil IP).
internetAddrList(afnet) ==
    {[addrs |-> <<>>, err |-> errLookup]}
    \cup {[addrs |-> <<SRTAddr("nil", 1)>>, err |-> NoError]}
    \cup {[addrs |-> l, err |-> NoError] :
            l \in {c \in CandidateLists :
                     \A i \in 1..Len(c) : c[i].IP # "nil" /\ FamilyOK(afnet, c[i])}}

\* The filter loop putting each kept candidate in front of the earlier ones.
RECURSIVE filterLoop_reversed(_, _, _, _)
filterLoop_reversed(addrs, i, hint, naddrs) ==
    IF i > Len(addrs) THEN [addrs |-> naddrs, err |-> NoError]
    ELSE IF "srt" # HintNetwork(hint)
         THEN [addrs |-> <<>>, err |-> errMismatched]
    ELSE IF ~HintWildcard(hint) /\ ~isWildcard(addrs[i])
            /\ ~matchAddrFamily(addrs[i], hint.IP)
         THEN filterLoop_reversed(addrs, i + 1, hint, naddrs)
    ELSE filterLoop_reversed(addrs, i + 1, hint, <<addrs[i]>> \o naddrs)

\* The filter loop of resolveAddrList (lines 164-176) over addrs[i..]:
\* naddrs grows by the candidates kept; a candidate of another network than
\* the hint's ends the loop with an error.
RECURSIVE filterLoop(_, _, _, _)
filterLoop(addrs, i, hint, naddrs) ==
    IF i > Len(addrs) THEN [addrs |-> naddrs, err |-> NoError]
    ELSE IF "srt" # HintNetwork(hint)
         THEN [addrs |-> <<>>, err |-> errMismatched]
    ELSE IF ~HintWildcard(hint) /\ ~isWildcard(addrs[i])
            /\ ~matchAddrFamily(addrs[i], hint.IP)
         THEN filterLoop(addrs, i + 1, hint, naddrs)
    ELSE filterLoop(addrs, i + 1, hint, Append(naddrs, addrs[i]))

\* resolveAddrList checking the address before the network.
resolveAddrList_addrFirst(op, network, addr, hint, lookup) ==
    LET pn == parseNetwork(network)
    IN  IF op = "dial" /\ addr = ""
        THEN [addrs |-> <<>>, err |-> errMissingAddress, lookups |-> 0]
        ELSE IF pn.err # NoError
        THEN [addrs |-> <<>>, err |-> pn.err, lookups |-> 0]
        ELSE IF lookup.err # NoError \/ op # "dial" \/ hint.type = "nil"
        THEN [addrs |-> lookup.addrs, err |-> lookup.err, lookups |-> 1]
        ELSE LET f == filterLoop(lookup.addrs, 1, hint, <<>>)
             IN  IF f.err # NoError
                 THEN [addrs |-> <<>>, err |-> f.err, lookups |-> 1]
                 ELSE IF Len(f.addrs) = 0
                 THEN [addrs |-> <<>>, err |-> errNoSuitableAddress, lookups |-> 1]
                 ELSE [addrs |-> f.addrs, err |-> NoError, lookups |-> 1]

\* resolveAddrList without the check for an emptied list.
resolveAddrList_noEmptyCheck(op, network, addr, hint, lookup) ==
    LET pn == parseNetwork(network)
    IN  IF pn.err # NoError
        THEN [addrs |-> <<>>, err |-> pn.err, lookups |-> 0]
        ELSE IF op = "dial" /\ addr = ""
        THEN [addrs |-> <<>>, err |-> errMissingAddress, lookups |-> 0]
        ELSE IF lookup.err # NoError \/ op # "dial" \/ hint.type = "nil"
        THEN [addrs |-> lookup.addrs, err |-> lookup.err, lookups |-> 1]
        ELSE LET f == filterLoop(lookup.addrs, 1, hint, <<>>)
             IN  IF f.err # NoError
                 THEN [addrs |-> <<>>, err |-> f.err, lookups |-> 1]
                 ELSE [addrs |-> f.addrs, err |-> NoError, lookups |-> 1]

\* Resolver.resolveAddrList(ctx, op, network, addr, hint); lookup is the answer
\* internetAddrList gives when it is asked.  lookups counts the name lookups.
resolveAddrList(op, network, addr, hint, lookup) ==
    LET pn == parseNetwork(network)
    IN  IF pn.err # NoError
        THEN [addrs |-> <<>>, err |-> pn.err, lookups |-> 0]
        ELSE IF op = "dial" /\ addr = ""
        THEN [addrs |-> <<>>, err |-> errMissingAddress, lookups |-> 0]
        ELSE IF lookup.err # NoError \/ op # "dial" \/ hint.type = "nil"
        THEN [addrs |-> lookup.addrs, err |-> lookup.err, lookups |-> 1]
        ELSE LET f == filterLoop(lookup.addrs, 1, hint, <<>>)
             IN  IF f.err # NoError
                 THEN [addrs |-> <<>>, err |-> f.err, lookups |-> 1]
                 ELSE IF Len(f.addrs) = 0
                 THEN [addrs |-> <<>>, err |-> errNoSuitableAddress, lookups |-> 1]
                 ELSE [addrs |-> f.addrs, err |-> NoError, lookups |-> 1]

----------------------------------------------------------------------------
(* DialContext up to the dispatch (lines 265-310) *)

OpError(op, network, source, addr, err) ==
    [Op |-> op, Net |-> network, Source |-> source, Addr |-> addr, Err |-> err]
NoAddr == SRTAddr("nil", 0)
NilOpError == OpError("", "", NilHint, NoAddr, NoError)

\* A connection: the task that established it and the address it goes to.
Conn(t, a) == [task |-> t, addr |-> a]
NoConn == Conn("none", NoAddr)

\* No nettrace.Trace in the context, and the traces a caller can install: each
\* connect hook is set or nil.
NoTrace == [set |-> FALSE, ConnectStart |-> FALSE, ConnectDone |-> FALSE]
Traces == {NoTrace} \cup [set : {TRUE}, ConnectStart : BOOLEAN, ConnectDone : BOOLEAN]

\* Resolution under the caller's own trace.
shadowTrace_none(trace) == [ctx |-> trace, resolve |-> trace]

\* The trace of the context after the shadowing and the trace resolution runs
\* under: a copy with both connect hooks nil (lines 278-285).
shadowTrace(trace) ==
    [ctx |-> trace,
     resolve |-> IF trace.set
                 THEN [trace EXCEPT !.ConnectStart = FALSE, !.ConnectDone = FALSE]
                 ELSE trace]

\* trace.ConnectStart(dp.network, raStr), if the hook is set (lines 440-445).
traceStart(trace, events, t, ra) ==
    IF trace.set /\ trace.ConnectStart
    THEN Append(events, [hook |-> "ConnectStart", by |-> t, addr |-> ra,
                         err |-> NilOpError])
    ELSE events

\* The deferred trace.ConnectDone(dp.network, raStr, err), if the hook is set
\* (lines 446-448).
traceDone(trace, events, t, ra, err) ==
    IF trace.set /\ trace.ConnectDone
    THEN Append(events, [hook |-> "ConnectDone", by |-> t, addr |-> ra,
                         err |-> err])
    ELSE events

dcStart ==
    [pc |-> "start", deadline |-> ZeroTime, ctx |-> NoDeadline, addrs |-> <<>>,
     lookups |-> 0, primaries |-> <<>>, fallbacks |-> <<>>, engine |-> "none",
     conn |-> NoConn, err |-> NilOpError, trace |-> NoTrace]

Tasks == {"main", "primary", "fallback"}
Racers == {"primary", "fallback"}

taskIdle ==
    [pc |-> "idle", ras |-> <<>>, i |-> 1, firstErr |-> NilOpError,
     at |-> ZeroTime, att |-> NoDeadline, conn |-> NoConn, err |-> NilOpError]

\* A dialResult not yet received.
noResult == [done |-> FALSE, err |-> NilOpError]

orchIdle ==
    [pc |-> "idle", primary |-> noResult, fallback |-> noResult,
     conn |-> NoConn, err |-> NilOpError]

timerNone == [state |-> "none", when |-> ZeroTime]

engineIdle ==
    /\ task = [t \in Tasks |-> taskIdle]
    /\ orch = orchIdle
    /\ timer = timerNone
    /\ cerr = [c \in Racers \cup {"parent"} |-> NoError]
    /\ returned = FALSE
    /\ conns = [open |-> {}, closed |-> {}, late |-> {}, stale |-> {}]
    /\ log = [spawned |-> <<>>, attempts |-> [t \in Tasks |-> <<>>],
              received |-> <<>>, raceStart |-> ZeroTime, bornDone |-> {},
              cancel |-> [by |-> "none", had |-> FALSE], events |-> <<>>]

\* No Listen call made.
lnIdle ==
    [pc |-> "start", addrs |-> <<>>, laddr |-> NoAddr, err |-> NilOpError,
     fd |-> "none", sockets |-> 0, conns |-> <<>>, callerClosed |-> {},
     last |-> [op |-> "none", err |-> NilOpError]]

\* No sendFile call made.
sfIdle ==
    [pc |-> "idle", limited |-> FALSE, N0 |-> 0, N |-> 0, left |-> 0,
     remain0 |-> 0, remain |-> 0, written |-> 0, err |-> NoError, n |-> 0,
     lock |-> "none", touched |-> FALSE, sum |-> 0, last |-> NoError,
     wait |-> "none", retried |-> FALSE,
     ret |-> [written |-> 0, err |-> [Syscall |-> "", Err |-> NoError],
              handled |-> FALSE]]

pdIdle == [now |-> 1, deadline |-> ZeroTime, n |-> 1, done |-> FALSE,
           t |-> ZeroTime, err |-> NoError]

\* deadline := d.deadline(ctx, time.Now()); ctx narrowed to it (lines 269-276)
DialDeadline ==
    /\ dc.pc = "start"
    /\ dc' = [dc EXCEPT !.pc = "resolve",
                        !.deadline = deadline(in.d, in.ctx, now),
                        !.ctx = dialCtx(in.d, in.ctx, now)]
    /\ UNCHANGED <<now, in, sf, ln, pd, engineVars>>

\* addrs, err := d.resolver().resolveAddrList(...) (lines 287-290)
DialResolve ==
    /\ dc.pc = "resolve"
    /\ LET r == resolveAddrList("dial", in.network, in.address, in.d.LocalAddr,
                                in.lookup)
           sh == shadowTrace(in.trace)
           d1 == [dc EXCEPT !.lookups = r.lookups, !.trace = sh.ctx]
       IN  /\ dc' = IF r.err # NoError
                    THEN [d1 EXCEPT !.pc = "done",
                                    !.err = OpError("dial", in.network, NilHint,
                                                    NoAddr, r.err)]
                    ELSE [d1 EXCEPT !.pc = "dispatch", !.addrs = r.addrs]
           /\ log' = [log EXCEPT !.events =
                         IF r.lookups > 0
                         THEN traceDone(sh.resolve,
                                  traceStart(sh.resolve, @, "resolver", NoAddr),
                                  "resolver", NoAddr, NilOpError)
                         ELSE @]
    /\ UNCHANGED <<now, in, sf, ln, pd, task, orch, timer, cerr, returned, conns>>

\* The partition and the choice of the engine (lines 298-310)
DialDispatch ==
    /\ dc.pc = "dispatch"
    /\ LET p == IF in.d.DualStack /\ in.network = "srt"
                THEN partition(dc.addrs)
                ELSE [primaries |-> dc.addrs, fallbacks |-> <<>>]
       IN  dc' = [dc EXCEPT !.pc = "racing",
                            !.primaries = p.primaries,
                            !.fallbacks = p.fallbacks,
                            !.engine = IF Len(p.fallbacks) > 0
                                       THEN "dialParallel" ELSE "dialSerial"]
    /\ UNCHANGED <<now, in, sf, ln, pd, engineVars>>

NextFront == DialDeadline \/ DialResolve \/ DialDispatch

Dialer(timeout, dl, la, ds, fd) ==
    [Timeout |-> timeout, Deadline |-> dl, LocalAddr |-> la, DualStack |-> ds,
     FallbackDelay |-> fd]

\* Instants of the clock, all later than the zero time even after a negative
\* Timeout is added.
Nows == {MaxTimeout + 1, MaxTimeout + 2}
Instants == 1..(2 * MaxTimeout + 2)
CtxDeadlines == {NoDeadline} \cup {[ok |-> TRUE, t |-> t] : t \in Instants \cup {ZeroTime}}

\* Every combination of Timeout, Deadline and context deadline, for one
\* resolvable address.
InitDeadline ==
    /\ now \in Nows
    /\ in \in [d : {Dialer(t, dl, NilHint, TRUE, 0) :
                       t \in (0 - MaxTimeout)..MaxTimeout,
                       dl \in Instants \cup {ZeroTime}},
                ctx : CtxDeadlines,
                network : {"srt"},
                trace : {NoTrace},
                address : {"host:9000"},
                lookup : {[addrs |-> <<SRTAddr("v4", 1), SRTAddr("v6", 2)>>,
                           err |-> NoError]}]
    /\ dc = dcStart
    /\ ln = lnIdle
    /\ sf = sfIdle
    /\ pd = pdIdle
    /\ engineIdle

\* Every combination of network, address, hint, lookup answer and DualStack,
\* without deadlines.
InitResolve ==
    /\ now = MaxTimeout + 1
    /\ \E network \in Networks :
         in \in [d : {Dialer(0, ZeroTime, h, ds, 0) : h \in Hints, ds \in BOOLEAN},
                 ctx : {NoDeadline},
                 network : {network},
                 trace : {NoTrace},
                 address : Addresses,
                 lookup : internetAddrList(parseNetwork(network).afnet)]
    /\ dc = dcStart
    /\ ln = lnIdle
    /\ sf = sfIdle
    /\ pd = pdIdle
    /\ engineIdle

SpecDeadline == InitDeadline /\ [][NextFront]_vars
SpecResolve == InitResolve /\ [][NextFront]_vars

----------------------------------------------------------------------------
(* Claims about the deadline and the resolution, under SpecDeadline and     *)
(* SpecResolve                                                              *)

Min(S) == CHOOSE x \in S : \A y \in S : x <= y

\* The deadlines that are set: now+Timeout when Timeout is non-zero, the
\* Dialer's Deadline and the context's deadline when they are not the zero
\* time.
SetDeadlines ==
    {now + in.d.Timeout : x \in {y \in {1} : in.d.Timeout # 0}}
    \cup {in.d.Deadline : x \in {y \in {1} : ~IsZero(in.d.Deadline)}}
    \cup {in.ctx.t : x \in {y \in {1} : in.ctx.ok /\ ~IsZero(in.ctx.t)}}

\* C8: the effective deadline of a dial is the earliest of now+Timeout (when
\* Timeout is non-zero), the Dialer's Deadline (when set) and the context's
\* deadline (when set); it is the zero time exactly when none of the three is
\* set; and the context the attempts run under has no deadline later than it
\* (and no deadline, or the zero one the caller gave, when it is unset).
C8_EffectiveDeadline ==
    dc.pc # "start" =>
        /\ dc.deadline = IF SetDeadlines = {} THEN ZeroTime ELSE Min(SetDeadlines)
        /\ IsZero(dc.deadline) <=> SetDeadlines = {}
        /\ ~IsZero(dc.deadline) => dc.ctx.ok /\ dc.ctx.t <= dc.deadline
        /\ IsZero(dc.deadline) => dc.ctx = in.ctx /\ (dc.ctx.ok => IsZero(dc.ctx.t))

\* All three are set, the Dialer's Deadline is the earliest, and the dial
\* goes on under it.
C8_Witness ==
    /\ dc.pc # "start"
    /\ in.d.Timeout # 0 /\ ~IsZero(in.d.Deadline) /\ in.ctx.ok
    /\ in.d.Deadline < now + in.d.Timeout /\ now + in.d.Timeout < in.ctx.t
    /\ dc.deadline = in.d.Deadline
    /\ dc.ctx = [ok |-> TRUE, t |-> in.d.Deadline]

Resolved == dc.pc \in {"dispatch", "racing"}
Settled == dc.pc \in {"dispatch", "racing", "done"}
Resolvable ==
    /\ parseNetwork(in.network).err = NoError
    /\ in.address # ""
    /\ in.lookup.err = NoError

WildcardHint == HintIsSRT(in.d.LocalAddr) /\ HintWildcard(in.d.LocalAddr)
IPv4Hint ==
    /\ in.d.LocalAddr.type = "SRTAddr"
    /\ ~isWildcard(in.d.LocalAddr)
    /\ To4(in.d.LocalAddr.IP)
IPv6Only(a) == To16(a.IP) /\ ~To4(a.IP)

\* C9 (as amended): in dial mode a wildcard hint leaves the resolver's list
\* unchanged; with a non-wildcard IPv4 hint exactly the candidates that are
\* wildcard or IPv4 survive, in their order, so every non-wildcard IPv6-only
\* candidate is removed (and the dial fails with NoSuitableAddress when none
\* survives).
C9_HintFilter ==
    (Settled /\ Resolvable) =>
        /\ WildcardHint => Resolved /\ dc.addrs = in.lookup.addrs
        /\ IPv4Hint =>
              LET keep == SelectSeq(in.lookup.addrs,
                                    LAMBDA a : isWildcard(a) \/ To4(a.IP))
              IN  IF keep = <<>>
                  THEN dc.pc = "done" /\ dc.err.Err = errNoSuitableAddress
                  ELSE /\ Resolved /\ dc.addrs = keep
                       /\ \A i \in 1..Len(dc.addrs) :
                             ~(IPv6Only(dc.addrs[i]) /\ ~isWildcard(dc.addrs[i]))

\* A non-wildcard IPv4 hint has removed an IPv6 candidate from between two
\* survivors.
C9_Witness ==
    /\ Resolved /\ Resolvable /\ IPv4Hint
    /\ Len(in.lookup.addrs) = 3 /\ in.lookup.addrs[2].IP = "v6"
    /\ dc.addrs = <<in.lookup.addrs[1], in.lookup.addrs[3]>>

\* C9 as first stated: with a non-wildcard IPv4 hint no IPv6-only candidate is
\* left in the result.
C9_Original ==
    (Resolved /\ Resolvable /\ IPv4Hint) =>
        \A i \in 1..Len(dc.addrs) : ~IPv6Only(dc.addrs[i])

ValidNetwork == in.network \in {"srt", "srt4", "srt6"}

\* C10: a dial on an unknown network fails with UnknownNetwork, a dial with an
\* empty address with MissingAddress, the network being checked first; a
\* resolution or validation error ends the dial with a wrapped "dial" error,
\* after at most one name lookup (none for these two), no engine started.
C10_ValidationErrors ==
    /\ Settled /\ ~ValidNetwork =>
          /\ dc.pc = "done" /\ dc.err.Err = errUnknownNetwork
          /\ dc.lookups = 0
    /\ Settled /\ ValidNetwork /\ in.address = "" =>
          /\ dc.pc = "done" /\ dc.err.Err = errMissingAddress
          /\ dc.lookups = 0
    /\ dc.err.Err # NoError =>
          /\ dc.pc = "done"
          /\ dc.err.Op = "dial" /\ dc.err.Net = in.network
          /\ dc.lookups <= 1
          /\ dc.engine = "none" /\ dc.primaries = <<>> /\ dc.fallbacks = <<>>
          /\ ~ENABLED NextFront

\* An unknown network with an empty address has failed with UnknownNetwork.
C10_Witness ==
    /\ dc.pc = "done" /\ ~ValidNetwork /\ in.address = ""
    /\ dc.err.Err = errUnknownNetwork /\ dc.engine = "none"

\* How often candidate a occurs in list l.
Count(l, a) == Cardinality({i \in 1..Len(l) : l[i] = a})

\* The hint filter drops candidate a (line 171).
Dropped(a) ==
    /\ ~HintWildcard(in.d.LocalAddr)
    /\ ~isWildcard(a)
    /\ ~matchAddrFamily(a, in.d.LocalAddr.IP)

\* C21: a resolution that succeeds gives at least one candidate, each one a
\* candidate of the resolver's answer and no more often than there; when the
\* hint, an SRT address, drops every candidate of the answer, the resolution
\* fails with NoSuitableAddress.
C21_NonEmpty ==
    /\ Resolved =>
          /\ Len(dc.addrs) >= 1 /\ dc.err.Err = NoError
          /\ \A i \in 1..Len(dc.addrs) :
                /\ Count(in.lookup.addrs, dc.addrs[i]) >= 1
                /\ Count(dc.addrs, dc.addrs[i]) <=
                      Count(in.lookup.addrs, dc.addrs[i])
    /\ (/\ Settled /\ Resolvable /\ HintIsSRT(in.d.LocalAddr)
        /\ \A i \in 1..Len(in.lookup.addrs) : Dropped(in.lookup.addrs[i])) =>
          /\ dc.pc = "done" /\ dc.err.Err = errNoSuitableAddress
          /\ dc.addrs = <<>>

\* An IPv6 hint has dropped both candidates, IPv4 ones, and the dial failed
\* with NoSuitableAddress.
C21_Witness ==
    /\ dc.pc = "done" /\ dc.err.Err = errNoSuitableAddress
    /\ in.d.LocalAddr = SRTHint("v6")
    /\ Len(in.lookup.addrs) = 2
    /\ in.lookup.addrs[1].IP = "v4" /\ in.lookup.addrs[2].IP = "v4in6"

----------------------------------------------------------------------------
(* partialDeadline as a function of its arguments *)

\* The instants partialDeadline is called at; the later ones have a deadline
\* one second earlier.
PartialNows == {1, 2, 11, 12}

InitPartial ==
    /\ now = MaxTimeout + 1
    /\ in = [d |-> Dialer(0, ZeroTime, NilHint, FALSE, 0), ctx |-> NoDeadline,
             network |-> "srt", address |-> "host:9000", trace |-> NoTrace,
             lookup |-> [addrs |-> <<SRTAddr("v4", 1)>>, err |-> NoError]]
    /\ dc = dcStart
    /\ ln = lnIdle
    /\ sf = sfIdle
    /\ engineIdle
    /\ \E n0 \in PartialNows :
         pd \in [now : {n0}, deadline : 0..(n0 + MaxRemaining),
                 n : 1..MaxRemainingAddrs, done : {FALSE},
                 t : {ZeroTime}, err : {NoError}]

PartialDeadlineCall ==
    /\ ~pd.done
    /\ LET r == partialDeadline(pd.now, pd.deadline, pd.n)
       IN  pd' = [pd EXCEPT !.done = TRUE, !.t = r.t, !.err = r.err]
    /\ UNCHANGED <<now, in, sf, ln, dc, engineVars>>

NextPartial == PartialDeadlineCall

SpecPartial == InitPartial /\ [][NextPartial]_vars

\* C7: for n >= 1, partialDeadline(now, overall, n) returns the unset deadline
\* and no error when overall is unset; Timeout when overall - now <= 0;
\* otherwise now + b, where b is (overall - now) / n if that is at least 2s,
\* else overall - now if that is under 2s, else exactly 2s.  10s over 4 gives
\* 2.5s, 3s over 4 gives 2s, a deadline 1s in the past gives Timeout.
C7_PartialDeadline ==
    pd.done =>
        LET r == pd.deadline - pd.now
            q == r \div pd.n
            b == IF q >= 20 THEN q ELSE IF r < 20 THEN r ELSE 20
        IN  /\ IsZero(pd.deadline) => IsZero(pd.t) /\ pd.err = NoError
            /\ ~IsZero(pd.deadline) /\ r <= 0 => pd.err = ErrTimeout
            /\ ~IsZero(pd.deadline) /\ r > 0 => pd.err = NoError /\ pd.t = pd.now + b
            /\ r = 100 /\ pd.n = 4 => pd.err = NoError /\ pd.t = pd.now + 25
            /\ r = 30 /\ pd.n = 4 => pd.err = NoError /\ pd.t = pd.now + 20
            /\ r = 0 - 10 => pd.err = ErrTimeout

\* 3s over 4 addresses has been clamped to 2s.
C7_Witness ==
    /\ pd.done /\ pd.deadline - pd.now = 30 /\ pd.n = 4
    /\ pd.t = pd.now + 20 /\ pd.err = NoError

----------------------------------------------------------------------------
(* The engine: dialSerial, run by DialContext itself ("main") or by a racer *)
(* of dialParallel                                                          *)

\* Ticks of the clock after the dial began.
MaxTime == 5

\* The context a task's dialSerial runs under: the dial's own, or the racer's
\* sub-context.
CtxOf(t) == IF t = "main" THEN "parent" ELSE t

\* A Done channel that is never ready.
Done_never(t) == FALSE

\* case <-ctx.Done() is ready (line 401)
Done(t) == cerr[CtxOf(t)] # NoError

\* mapErr(ctx.Err()): context.Canceled and context.DeadlineExceeded as the
\* errors of this package.
mapErr(e) == IF e = "DeadlineExceeded" THEN ErrTimeout ELSE "Canceled"

\* Cancelling context c in ce: the first cancellation stays; the dial's own
\* context takes the sub-contexts that exist with it.
cancelCtx(ce, c, e, exists) ==
    [x \in DOMAIN ce |->
        IF ce[x] = NoError /\ (x = c \/ (c = "parent" /\ x \in exists))
        THEN e ELSE ce[x]]

Spawned == {log.spawned[k] : k \in 1..Len(log.spawned)}

\* firstErr after a failed attempt (lines 426-428), keeping the last error.
recordErr_last(firstErr, err) == err

\* firstErr after a failed attempt (lines 410-412, 426-428)
recordErr(firstErr, err) ==
    IF firstErr.Err = NoError THEN err ELSE firstErr

\* The candidates taken from the end of the list.
candidate_backwards(ras, i) == ras[Len(ras) + 1 - i]

\* The candidate of the i-th iteration of `for i, ra := range ras`
candidate(ras, i) == ras[i]

\* The candidates counted from the start of the list at every iteration.
addrsRemaining_total(ras, i) == Len(ras)

\* len(ras)-i of line 407, i counting from 1 here
addrsRemaining(ras, i) == Len(ras) - (i - 1)

\* What dialSerial returns when the loop is over (lines 431-434).
serialError(firstErr) ==
    IF firstErr.Err = NoError
    THEN OpError("dial", in.network, NilHint, NoAddr, errMissingAddress)
    ELSE firstErr

\* The task once its dialSerial has returned (c, e): DialContext has its
\* result; a racer goes on to the select of startRacer (lines 344-350).
serialReturn(t, tk, c, e) ==
    [tk EXCEPT !.pc = IF t = "main" THEN "done" ELSE "send",
               !.at = ZeroTime, !.conn = c, !.err = e]

\* One iteration of dialSerial up to the call of dialSingle (lines 399-422)
\* and dialSingle up to its connect (lines 439-453), or the end of the loop
\* over an empty list.
SerialIter(t) ==
    /\ task[t].pc = "loop"
    /\ LET tk == task[t]
           n == Len(tk.ras)
           ra == candidate(tk.ras, tk.i)
           dl == IF dc.ctx.ok THEN dc.ctx.t ELSE ZeroTime
           p == partialDeadline(now, dl, addrsRemaining(tk.ras, tk.i))
           timeout == OpError("dial", in.network, in.d.LocalAddr, ra, p.err)
       IN  /\ task' = [task EXCEPT ![t] =
             IF tk.i > n
             THEN serialReturn(t, tk, NoConn, serialError(tk.firstErr))
             ELSE IF Done(t)
             THEN serialReturn(t, tk, NoConn,
                      OpError("dial", in.network, in.d.LocalAddr, ra,
                              mapErr(cerr[CtxOf(t)])))
             ELSE IF p.err # NoError
             THEN serialReturn(t, [tk EXCEPT !.firstErr = recordErr(@, timeout)],
                               NoConn, serialError(recordErr(tk.firstErr, timeout)))
             ELSE [tk EXCEPT !.pc = "connect", !.at = now,
                             !.att = IF Before(p.t, dl)
                                     THEN WithDeadline(dc.ctx, p.t)
                                     ELSE dc.ctx]]
           /\ log' = IF tk.i <= n /\ ~Done(t) /\ p.err = NoError
                     THEN [log EXCEPT !.events = traceStart(dc.trace, @, t, ra)]
                     ELSE log
    /\ UNCHANGED <<now, in, sf, ln, dc, pd, orch, timer, cerr, returned, conns>>

\* The errors an attempt in flight can end with: a refusal at any time, a
\* timeout once its deadline has passed, the cancellation once its context is
\* done.
ConnectErrors(t) ==
    {"ConnectFailed"}
    \cup {ErrTimeout : x \in {y \in {1} : task[t].att.ok /\ now >= task[t].att.t}}
    \cup {mapErr(cerr[CtxOf(t)]) : x \in {y \in {1} : Done(t)}}

\* dialSingle returns a connection (lines 422-424).
ConnectOK(t) ==
    /\ task[t].pc = "connect"
    /\ LET tk == task[t]
           ra == candidate(tk.ras, tk.i)
           c == Conn(t, ra)
       IN  /\ task' = [task EXCEPT ![t] = serialReturn(t, tk, c, NilOpError)]
           /\ conns' = [conns EXCEPT !.open = @ \cup {c},
                                     !.late = IF orch.pc = "returned"
                                              THEN @ \cup {c} ELSE @,
                                     !.stale = IF cerr[CtxOf(t)] # NoError
                                               THEN @ \cup {c} ELSE @]
           /\ log' = [log EXCEPT !.attempts[t] =
                                        Append(@, [addr |-> ra, err |-> NoError]),
                                    !.events =
                                        traceDone(dc.trace, @, t, ra, NilOpError)]
    /\ UNCHANGED <<now, in, sf, ln, dc, pd, orch, timer, cerr, returned>>

\* dialSingle returns an error (lines 422-429): the next candidate, or the end
\* of the loop (lines 431-434).
ConnectFail(t) ==
    /\ task[t].pc = "connect"
    /\ \E e \in ConnectErrors(t) :
         LET tk == task[t]
             ra == candidate(tk.ras, tk.i)
             err == OpError("dial", in.network, in.d.LocalAddr, ra, e)
             fe == recordErr(tk.firstErr, err)
             nx == [tk EXCEPT !.firstErr = fe, !.i = @ + 1, !.at = ZeroTime,
                               !.att = NoDeadline]
         IN  /\ task' = [task EXCEPT ![t] =
                   IF nx.i > Len(tk.ras)
                   THEN serialReturn(t, nx, NoConn, serialError(fe))
                   ELSE [nx EXCEPT !.pc = "loop"]]
             /\ log' = [log EXCEPT !.attempts[t] =
                                          Append(@, [addr |-> ra, err |-> e]),
                                      !.events =
                                          traceDone(dc.trace, @, t, ra, err)]
    /\ UNCHANGED <<now, in, sf, ln, dc, pd, orch, timer, cerr, returned, conns>>

----------------------------------------------------------------------------
(* dialParallel (lines 322-392)                                             *)

\* Longest candidate list of a race.
MaxRace == 3

\* DialContext calls dialSerial (line 309), or dialParallel finds no fallbacks
\* (lines 323-325).
EnterSerial ==
    /\ dc.pc = "racing" /\ task["main"].pc = "idle" /\ orch.pc = "idle"
    /\ dc.engine = "dialSerial" \/ Len(dc.fallbacks) = 0
    /\ task' = [task EXCEPT !["main"] =
                   [taskIdle EXCEPT !.pc = "loop", !.ras = dc.primaries]]
    /\ UNCHANGED <<now, in, sf, ln, dc, pd, orch, timer, cerr, returned, conns, log>>

\* A racer whose context is not derived from the dial's.
startRacer_detached(t) ==
    /\ task' = [task EXCEPT ![t] =
                   [taskIdle EXCEPT !.pc = "loop",
                                    !.ras = IF t = "primary" THEN dc.primaries
                                            ELSE dc.fallbacks]]
    /\ cerr' = [cerr EXCEPT ![t] = NoError]

\* A racer started by `go startRacer(ctx, primary)` under a new sub-context
\* (lines 338-343, 356-358, 367-369).
startRacer(t) ==
    /\ task' = [task EXCEPT ![t] =
                   [taskIdle EXCEPT !.pc = "loop",
                                    !.ras = IF t = "primary" THEN dc.primaries
                                            ELSE dc.fallbacks]]
    /\ cerr' = [cerr EXCEPT ![t] = cerr["parent"]]

\* dialParallel up to its loop: the primary racer and the fallback timer
\* (lines 322-362).
EnterParallel ==
    /\ dc.pc = "racing" /\ dc.engine = "dialParallel" /\ orch.pc = "idle"
    /\ Len(dc.fallbacks) # 0
    /\ startRacer("primary")
    /\ orch' = [orch EXCEPT !.pc = "select"]
    /\ timer' = [state |-> "running", when |-> now + fallbackDelay(in.d)]
    /\ log' = [log EXCEPT !.spawned = Append(@, "primary"), !.raceStart = now,
                          !.bornDone = IF cerr["parent"] # NoError
                                       THEN @ \cup {"primary"} ELSE @]
    /\ UNCHANGED <<now, in, sf, ln, dc, pd, returned, conns>>

\* The runtime sends on fallbackTimer.C once the timer's time has come.
TimerFire ==
    /\ timer.state = "running" /\ now >= timer.when
    /\ timer' = [timer EXCEPT !.state = "fired"]
    /\ UNCHANGED <<now, in, sf, ln, dc, pd, task, orch, cerr, returned, conns, log>>

\* case <-fallbackTimer.C (lines 366-369)
OrchTimer ==
    /\ orch.pc = "select" /\ timer.state = "fired"
    /\ timer' = [timer EXCEPT !.state = "expired"]
    /\ startRacer("fallback")
    /\ log' = [log EXCEPT !.spawned = Append(@, "fallback"),
                          !.bornDone = IF cerr["parent"] # NoError
                                       THEN @ \cup {"fallback"} ELSE @]
    /\ UNCHANGED <<now, in, sf, ln, dc, pd, orch, returned, conns>>

\* The error of a lost race, taken from whichever result came last.
parallelError_last(primary, fallback, res) == res.err

\* The error dialParallel returns when both racers failed (line 381).
parallelError(primary, fallback, res) == primary.err

\* The primary's error stopping the timer and not starting it again.
stopAndReset_stopOnly(tm) ==
    IF tm.state = "running" THEN [tm EXCEPT !.state = "stopped"] ELSE tm

\* Reset(0) whatever Stop reported.
stopAndReset_always(tm) == [state |-> "running", when |-> now]

\* fallbackTimer.Stop() and, if that stopped a running timer, Reset(0)
\* (lines 383-389).  Stop reports false for a timer that has fired, received
\* or not.
stopAndReset(tm) ==
    IF tm.state = "running" THEN [state |-> "running", when |-> now] ELSE tm

\* Returning the error as soon as one racer has reported.
bothDone_either(o) == o.primary.done \/ o.fallback.done

\* primary.done && fallback.done (line 380)
bothDone(o) == o.primary.done /\ o.fallback.done

\* case res := <-results (lines 371-389): the racer's send and the
\* orchestrator's receive are one step, the channel being unbuffered.
OrchRecv(t) ==
    /\ orch.pc = "select" /\ task[t].pc = "send"
    /\ LET res == [conn |-> task[t].conn, err |-> task[t].err]
           rec == [done |-> TRUE, err |-> res.err]
           o1 == IF t = "primary" THEN [orch EXCEPT !.primary = rec]
                 ELSE [orch EXCEPT !.fallback = rec]
       IN  /\ IF res.err.Err = NoError
              THEN /\ orch' = [orch EXCEPT !.pc = "defer1", !.conn = res.conn]
                   /\ timer' = timer
              ELSE IF bothDone(o1)
              THEN /\ orch' = [o1 EXCEPT !.pc = "defer1",
                                 !.err = parallelError(o1.primary, o1.fallback, res)]
                   /\ timer' = timer
              ELSE /\ orch' = o1
                   /\ timer' = IF t = "primary" THEN stopAndReset(timer) ELSE timer
           /\ log' = [log EXCEPT !.received =
                         Append(@, [task |-> t, conn |-> res.conn, err |-> res.err])]
    /\ task' = [task EXCEPT ![t].pc = "done"]
    /\ UNCHANGED <<now, in, sf, ln, dc, pd, cerr, returned, conns>>

\* The deferred primaryCancel left out.
primaryCancel_missing(ce) == ce

\* defer primaryCancel() (line 357)
primaryCancel(ce) == cancelCtx(ce, "primary", "Canceled", {})

\* defer fallbackCancel() (line 368), registered only once the fallback racer
\* was started
fallbackCancel(ce) ==
    IF "fallback" \in Spawned THEN cancelCtx(ce, "fallback", "Canceled", {}) ELSE ce

\* The channel left open at the return.
closeReturned_missing(ch) == ch

\* defer close(returned) (lines 327-328)
closeReturned(ch) == TRUE

\* The deferred calls of dialParallel, last registered first: fallbackCancel
\* and fallbackTimer.Stop, primaryCancel, close(returned)
\* (lines 368, 362, 357, 328).
OrchDefer ==
    /\ \/ /\ orch.pc = "defer1"
          /\ cerr' = fallbackCancel(cerr)
          /\ timer' = [timer EXCEPT !.state =
                          IF @ = "running" THEN "stopped" ELSE @]
          /\ orch' = [orch EXCEPT !.pc = "defer2"]
          /\ UNCHANGED returned
       \/ /\ orch.pc = "defer2"
          /\ cerr' = primaryCancel(cerr)
          /\ orch' = [orch EXCEPT !.pc = "defer3"]
          /\ UNCHANGED <<timer, returned>>
       \/ /\ orch.pc = "defer3"
          /\ returned' = closeReturned(returned)
          /\ orch' = [orch EXCEPT !.pc = "returned"]
          /\ UNCHANGED <<timer, cerr>>
    /\ UNCHANGED <<now, in, sf, ln, dc, pd, task, conns, log>>

\* The losing racer never closing what it established.
closeConn_missing(cs, c, t) == cs

\* c.Close() by task t
closeConn(cs, c, t) ==
    [cs EXCEPT !.open = @ \ {c}, !.closed = @ \cup {[conn |-> c, by |-> t]}]

\* case <-returned of startRacer (lines 346-349)
RacerAbandon(t) ==
    /\ task[t].pc = "send" /\ returned
    /\ task' = [task EXCEPT ![t].pc = "done"]
    /\ conns' = IF task[t].conn # NoConn THEN closeConn(conns, task[t].conn, t)
                ELSE conns
    /\ UNCHANGED <<now, in, sf, ln, dc, pd, orch, timer, cerr, returned, log>>

\* DialContext returns what the engine returned (lines 305-315); the deferred
\* cancel of the deadline context, if one was made (line 273).
DialReturn ==
    /\ dc.pc = "racing"
    /\ \/ /\ task["main"].pc = "done"
          /\ dc' = [dc EXCEPT !.pc = "done", !.conn = task["main"].conn,
                              !.err = task["main"].err]
       \/ /\ orch.pc = "returned"
          /\ dc' = [dc EXCEPT !.pc = "done", !.conn = orch.conn, !.err = orch.err]
    /\ cerr' = IF dc.ctx # in.ctx
               THEN cancelCtx(cerr, "parent", "Canceled", Spawned)
               ELSE cerr
    /\ UNCHANGED <<now, in, sf, ln, pd, task, orch, timer, returned, conns, log>>

\* The caller cancels the context of the dial.
CallerCancel ==
    /\ dc.pc = "racing" /\ cerr["parent"] = NoError
    /\ cerr' = cancelCtx(cerr, "parent", "Canceled", Spawned)
    /\ log' = [log EXCEPT !.cancel =
                  [by |-> "caller",
                   had |-> conns.open # {} \/ conns.closed # {}]]
    /\ UNCHANGED <<now, in, sf, ln, dc, pd, task, orch, timer, returned, conns>>

\* The deadline of the dial's context passes.
CtxExpire ==
    /\ dc.engine # "none" /\ cerr["parent"] = NoError
    /\ dc.ctx.ok /\ now >= dc.ctx.t
    /\ cerr' = cancelCtx(cerr, "parent", "DeadlineExceeded", Spawned)
    /\ log' = [log EXCEPT !.cancel =
                  [by |-> "deadline",
                   had |-> conns.open # {} \/ conns.closed # {}]]
    /\ UNCHANGED <<now, in, sf, ln, dc, pd, task, orch, timer, returned, conns>>

StartNow == 1
Running ==
    \/ orch.pc = "select"
    \/ \E t \in Tasks : task[t].pc \in {"loop", "connect"}

\* 100ms pass.
Tick ==
    /\ Running /\ now < StartNow + MaxTime
    /\ now' = now + 1
    /\ UNCHANGED <<in, sf, ln, dc, pd, engineVars>>

\* Time passes until the deadline of an attempt in flight.
Elapse ==
    /\ \E t \in Tasks :
         /\ task[t].pc = "connect" /\ task[t].att.ok /\ task[t].att.t > now
         /\ now' = task[t].att.t
    /\ UNCHANGED <<in, sf, ln, dc, pd, engineVars>>

RaceLists ==
    UNION { { [i \in 1..n |-> SRTAddr(f[i], i)] : f \in [1..n -> {"v4", "v6"}] }
            : n \in 1..MaxRace }
RaceTimeouts == {0, 2}
RaceDelays == {0 - 1, 0, 1}

\* Dials of a host that resolves, with and without DualStack, without a
\* Timeout and with one of 200ms, with the three kinds of FallbackDelay.
Init ==
    /\ now = StartNow
    /\ in \in [d : {Dialer(to, ZeroTime, NilHint, ds, fd) :
                       to \in RaceTimeouts, ds \in BOOLEAN, fd \in RaceDelays},
                ctx : {NoDeadline},
                network : {"srt"},
                trace : {NoTrace},
                address : {"host:9000"},
                lookup : {[addrs |-> l, err |-> NoError] : l \in RaceLists}]
    /\ dc = dcStart
    /\ ln = lnIdle
    /\ sf = sfIdle
    /\ pd = pdIdle
    /\ engineIdle

Next ==
    \/ NextFront
    \/ EnterSerial
    \/ EnterParallel
    \/ \E t \in Tasks : SerialIter(t) \/ ConnectOK(t) \/ ConnectFail(t)
    \/ TimerFire
    \/ OrchTimer
    \/ \E t \in Racers : OrchRecv(t) \/ RacerAbandon(t)
    \/ OrchDefer
    \/ DialReturn
    \/ CallerCancel
    \/ CtxExpire
    \/ Tick
    \/ Elapse

Spec == Init /\ [][Next]_vars

----------------------------------------------------------------------------
(* Claims about the races, under Spec                                       *)

Parallel == orch.pc # "idle"
OrchLeft == orch.pc \in {"defer1", "defer2", "defer3", "returned"}
SerialReturned(t) == task[t].pc \in {"send", "done"}
InFlight(t) == task[t].pc = "connect"
RacersFinished == \A t \in Racers : task[t].pc \in {"idle", "done"}
Failed(e) == e.Err # NoError

\* The connections the attempts of the racers established.
Established ==
    UNION { { Conn(t, log.attempts[t][k].addr) :
                k \in {j \in 1..Len(log.attempts[t]) :
                         log.attempts[t][j].err = NoError} }
            : t \in Racers }
ClosedConns == {x.conn : x \in conns.closed}
Successes == {k \in 1..Len(log.received) : ~Failed(log.received[k].err)}

\* C1: in dialParallel, under every interleaving, at most one connection is
\* handed to the caller; a connection a racer established is open only while
\* it is the one handed over or its racer still holds it to send or close it;
\* only the racer that established a connection closes it, and never the one
\* returned; once dialParallel has returned and every racer has finished, the
\* open connections are exactly the returned one on success, none on failure.
C1_NoLeak ==
    Parallel =>
        /\ Cardinality(Successes) <= 1
        /\ orch.conn # NoConn => orch.conn \in Established
        /\ conns.open \cup ClosedConns = Established
        /\ \A c \in conns.open :
              c = orch.conn \/ (task[c.task].pc = "send" /\ task[c.task].conn = c)
        /\ \A x \in conns.closed : x.by = x.conn.task /\ x.conn # orch.conn
        /\ (orch.pc = "returned" /\ RacersFinished) =>
              /\ conns.open = IF orch.conn # NoConn THEN {orch.conn} ELSE {}
              /\ ClosedConns = Established \ {orch.conn}
        /\ dc.pc = "done" => dc.conn = orch.conn

\* The fallback's connection was returned; the primary racer connected only
\* after dialParallel had returned, and has closed its connection.
C1_Witness ==
    /\ orch.pc = "returned" /\ RacersFinished
    /\ orch.conn.task = "fallback" /\ conns.open = {orch.conn}
    /\ \E x \in conns.closed :
         x.conn.task = "primary" /\ x.by = "primary" /\ x.conn \in conns.late

PrimaryFailed == orch.primary.done /\ Failed(orch.primary.err)

\* C2: the primary racer is started first, and the fallback racer is not
\* started before fallbackDelay (300ms if the configured value is zero or
\* negative) has passed since the race began, unless the primary racer has
\* reported a failure.
C2_HeadStart ==
    /\ Len(log.spawned) >= 1 => log.spawned[1] = "primary"
    /\ "fallback" \in Spawned =>
          /\ log.spawned = <<"primary", "fallback">>
          /\ \/ PrimaryFailed
             \/ now - log.raceStart >=
                  (IF in.d.FallbackDelay > 0 THEN in.d.FallbackDelay ELSE 3)

\* With no FallbackDelay configured the fallback racer has started 300ms into
\* the race, the primary racer not having reported.
C2_Witness ==
    /\ "fallback" \in Spawned /\ ~orch.primary.done
    /\ in.d.FallbackDelay = 0 /\ now - log.raceStart = 3

AllAttemptedAndFailed(t) ==
    /\ SerialReturned(t)
    /\ Len(task[t].ras) >= 1
    /\ Len(log.attempts[t]) = Len(task[t].ras)
    /\ \A k \in 1..Len(log.attempts[t]) : log.attempts[t][k].err # NoError

\* C3: when every candidate of a dialSerial was attempted and failed, the
\* error returned is the error of the first candidate, whatever the errors of
\* the later ones.
C3_FirstErrorWins ==
    \A t \in Tasks :
        AllAttemptedAndFailed(t) =>
            /\ task[t].conn = NoConn
            /\ task[t].err = OpError("dial", in.network, in.d.LocalAddr,
                                     task[t].ras[1], log.attempts[t][1].err)

\* A dialSerial over two candidates that failed with different errors has
\* returned the first one's.
C3_Witness ==
    \E t \in Tasks :
        /\ AllAttemptedAndFailed(t) /\ Len(task[t].ras) >= 2
        /\ log.attempts[t][2].err # log.attempts[t][1].err
        /\ task[t].err.Addr = task[t].ras[1]
        /\ task[t].err.Err = log.attempts[t][1].err

ReportOf(t) ==
    LET k == CHOOSE j \in 1..Len(log.received) : log.received[j].task = t
    IN  log.received[k]

\* C4: once both racers have reported errors, dialParallel returns the
\* primary racer's error and no connection, whichever reported first; and it
\* returns an error in no other case.
C4_PrimaryError ==
    /\ (orch.primary.done /\ orch.fallback.done) =>
          /\ OrchLeft /\ orch.conn = NoConn
          /\ orch.err = ReportOf("primary").err
          /\ orch.err # ReportOf("fallback").err
          /\ dc.pc = "done" => dc.err = orch.err /\ dc.conn = NoConn
    /\ Failed(orch.err) => orch.primary.done /\ orch.fallback.done

\* The fallback racer reported its error first, the primary racer second, and
\* the primary's error was returned.
C4_Witness ==
    /\ orch.pc = "returned" /\ Len(log.received) = 2
    /\ log.received[1].task = "fallback" /\ log.received[2].task = "primary"
    /\ orch.err = log.received[2].err /\ Failed(orch.err)

\* C5: the first error-free result received is what dialParallel returns,
\* without receiving anything more; when it has returned, the sub-context of
\* every racer started is cancelled.
C5_FirstSuccess ==
    orch.conn # NoConn =>
        LET k == Len(log.received)
        IN  /\ OrchLeft
            /\ k >= 1 /\ log.received[k].conn = orch.conn
            /\ ~Failed(log.received[k].err) /\ ~Failed(orch.err)
            /\ \A j \in 1..(k - 1) : Failed(log.received[j].err)
            /\ orch.pc = "returned" => \A t \in Spawned : cerr[t] # NoError
            /\ dc.pc = "done" => dc.conn = orch.conn /\ ~Failed(dc.err)

\* The primary racer's first attempt is still in flight; the fallback racer,
\* started after fallbackDelay, connected; the fallback's connection was
\* returned and the primary racer's context is cancelled.
C5_Witness ==
    /\ orch.pc = "returned" /\ orch.conn.task = "fallback"
    /\ task["primary"].pc = "connect" /\ log.attempts["primary"] = <<>>
    /\ Len(log.received) = 1
    /\ now - log.raceStart >= fallbackDelay(in.d)
    /\ cerr["primary"] = "Canceled"

\* C6: dialSerial attempts the candidates in list order, each at most once,
\* makes no attempt after a successful one, and returns the connection of the
\* first candidate that succeeds, with no error.
C6_SerialOrder ==
    \A t \in Tasks :
        LET a == log.attempts[t]
            n == Len(a)
        IN  /\ n <= Len(task[t].ras)
            /\ \A k \in 1..n : a[k].addr = task[t].ras[k]
            /\ \A k \in 1..(n - 1) : a[k].err # NoError
            /\ (n >= 1 /\ a[n].err = NoError) =>
                  /\ SerialReturned(t)
                  /\ task[t].conn = Conn(t, task[t].ras[n])
                  /\ ~Failed(task[t].err)
            /\ task[t].conn # NoConn => n >= 1 /\ a[n].err = NoError

\* Without DualStack, the first of two IPv4 candidates was refused and the
\* second connected: the dial returned the connection to the second, no error.
C6_Witness ==
    /\ ~in.d.DualStack /\ dc.pc = "done"
    /\ Len(dc.addrs) = 2 /\ isIPv4(dc.addrs[1]) /\ isIPv4(dc.addrs[2])
    /\ log.attempts["main"] = <<[addr |-> dc.addrs[1], err |-> "ConnectFailed"],
                                [addr |-> dc.addrs[2], err |-> NoError]>>
    /\ dc.conn = Conn("main", dc.addrs[2]) /\ ~Failed(dc.err)

CancelledAt(t, i) ==
    OpError("dial", in.network, in.d.LocalAddr, task[t].ras[i],
            mapErr(cerr[CtxOf(t)]))

\* C17: a dialSerial that comes to a candidate with its context already done
\* returns at that step, with no connection and the context's error wrapped
\* with that candidate as its address, and without an attempt on it; having
\* returned, it attempts nothing more.
C17_CancelCheck ==
    [][\A t \in Tasks :
          /\ (/\ task[t].pc = "loop" /\ task[t].i <= Len(task[t].ras)
              /\ cerr[CtxOf(t)] # NoError
              /\ task'[t] # task[t]) =>
                 /\ task'[t].pc \in {"send", "done"}
                 /\ task'[t].conn = NoConn
                 /\ task'[t].err = CancelledAt(t, task[t].i)
                 /\ log'.attempts[t] = log.attempts[t]
          /\ (SerialReturned(t) /\ task'[t].ras = task[t].ras) =>
                 log'.attempts[t] = log.attempts[t]]_vars

\* A dialSerial whose first candidate was refused found its context cancelled
\* before the second: it returned the cancellation with the second candidate
\* as the address, and made one attempt.
C17_Witness ==
    \E t \in Tasks :
        /\ SerialReturned(t) /\ Len(task[t].ras) >= 2
        /\ Len(log.attempts[t]) = 1
        /\ log.attempts[t][1].err = "ConnectFailed"
        /\ task[t].err.Err = "Canceled"
        /\ task[t].err.Addr = task[t].ras[2]

\* The overall deadline has passed and the context is not yet done.
OutOfTime(t) ==
    /\ cerr[CtxOf(t)] = NoError
    /\ dc.ctx.ok /\ ~IsZero(dc.ctx.t) /\ dc.ctx.t - now <= 0

\* C18: after a failed attempt that was not on the last candidate, dialSerial
\* goes on to the next candidate; when the overall deadline has passed as it
\* comes to a candidate, it returns at that step without an attempt on it,
\* with the first error recorded, or, none being recorded, with Timeout
\* wrapped with that candidate as its address.
C18_Exhaustion ==
    [][\A t \in Tasks :
          /\ (/\ task[t].pc = "loop" /\ task[t].i <= Len(task[t].ras)
              /\ OutOfTime(t)
              /\ task'[t] # task[t]) =>
                 /\ task'[t].pc \in {"send", "done"}
                 /\ task'[t].conn = NoConn
                 /\ log'.attempts[t] = log.attempts[t]
                 /\ task'[t].err =
                       IF task[t].firstErr.Err = NoError
                       THEN OpError("dial", in.network, in.d.LocalAddr,
                                    task[t].ras[task[t].i], ErrTimeout)
                       ELSE task[t].firstErr
          /\ (/\ InFlight(t) /\ task[t].i < Len(task[t].ras)
              /\ Len(log'.attempts[t]) = Len(log.attempts[t]) + 1
              /\ log'.attempts[t][Len(log'.attempts[t])].err # NoError) =>
                 /\ task'[t].pc = "loop" /\ task'[t].i = task[t].i + 1
                 /\ task'[t].firstErr.Err = log'.attempts[t][1].err]_vars

\* The first of several candidates was refused; the deadline had passed
\* when dialSerial came to the second, the context not being done yet: it
\* returned the first candidate's error after that one attempt.
C18_Witness ==
    \E t \in Tasks :
        /\ SerialReturned(t) /\ Len(task[t].ras) >= 2
        /\ Len(log.attempts[t]) = 1
        /\ task[t].err.Err = "ConnectFailed"
        /\ task[t].err.Addr = task[t].ras[1]
        /\ OutOfTime(t)

\* C19: a dial starts at most two racers: the primary racer, once, and then
\* the fallback racer, at most once; the fallback racer has been started
\* exactly when the timer's firing has been received, which happens once.
C19_TwoRacers ==
    /\ Len(log.spawned) <= 2
    /\ \A j \in 1..Len(log.spawned) : \A k \in 1..Len(log.spawned) :
          j # k => log.spawned[j] # log.spawned[k]
    /\ Parallel => Len(log.spawned) >= 1 /\ log.spawned[1] = "primary"
    /\ ~Parallel => log.spawned = <<>>
    /\ "fallback" \in Spawned <=> timer.state = "expired"

\* The primary racer failed before fallbackDelay had passed, the timer was
\* set to fire at once, the fallback racer was started, once, and failed;
\* dialParallel has returned.
C19_Witness ==
    /\ orch.pc = "returned" /\ log.spawned = <<"primary", "fallback">>
    /\ Len(log.received) = 2 /\ log.received[1].task = "primary"
    /\ now - log.raceStart < fallbackDelay(in.d)
    /\ timer.state = "expired"

\* C20: dialParallel leaves its loop without a connection only when both
\* racers were started and both have reported an error; while one has not
\* reported, an error of the other keeps it in the loop, so that no
\* connection a racer established by then is given up for an error.
C20_NoEarlyError ==
    /\ (OrchLeft /\ orch.conn = NoConn) =>
          /\ Spawned = Racers /\ Len(log.received) = 2
          /\ log.received[1].task # log.received[2].task
          /\ \A k \in 1..2 : Failed(log.received[k].err)
          /\ conns.open \cup ClosedConns \subseteq conns.late
    /\ (Parallel /\ Len(log.received) = 1 /\ Failed(log.received[1].err)) =>
          orch.pc = "select"
    /\ (Parallel /\ log.received = <<>>) => orch.pc = "select"

\* The primary racer reported an error, cancelled by the caller, while the
\* fallback racer's connection was on its way: the connection was received
\* after the error and returned.
C20_Witness ==
    /\ orch.pc = "returned" /\ Len(log.received) = 2
    /\ log.received[1].task = "primary" /\ Failed(log.received[1].err)
    /\ log.received[1].err.Err = "Canceled"
    /\ log.received[2].task = "fallback" /\ ~Failed(log.received[2].err)
    /\ orch.conn = log.received[2].conn /\ orch.conn \in conns.open
    /\ orch.conn \notin conns.stale

----------------------------------------------------------------------------
(* The spreading of a Timeout over the attempts, under SpecSpread: the same *)
(* steps as Spec, for dials with a Timeout of seconds                       *)

\* Longest candidate list of a dial with a long Timeout.
MaxSpread == 4

\* 5s and one minute
SpreadTimeouts == {50, 600}

\* Lists of n candidates, the first k of them IPv4 and the others IPv6.
SpreadLists ==
    UNION { { [i \in 1..n |-> SRTAddr(IF i <= k THEN "v4" ELSE "v6", i)] :
                k \in {n - 1, n} }
            : n \in 1..MaxSpread }

InitSpread ==
    /\ now = StartNow
    /\ in \in [d : {Dialer(to, ZeroTime, NilHint, ds, 0) :
                       to \in SpreadTimeouts, ds \in BOOLEAN},
                ctx : {NoDeadline},
                network : {"srt"},
                trace : {NoTrace},
                address : {"host:9000"},
                lookup : {[addrs |-> l, err |-> NoError] : l \in SpreadLists}]
    /\ dc = dcStart
    /\ ln = lnIdle
    /\ sf = sfIdle
    /\ pd = pdIdle
    /\ engineIdle

SpecSpread == InitSpread /\ [][Next]_vars

\* The time an attempt in flight was given when it was started.
Budget(t) == task[t].att.t - task[t].at

\* C12 (as amended): under an overall deadline D, an attempt started at time
\* t with k candidates of its dialSerial left, itself included, is given
\* (D - t) / k, but at least 2s, or all of D - t when less than 2s is left;
\* the budget is computed from the time and the number of candidates left
\* when the attempt starts.  Four candidates tried one after the other under
\* a Timeout of one minute get 15s each when each attempt uses up its budget.
C12_Spread ==
    \A t \in Tasks :
        (InFlight(t) /\ dc.ctx.ok) =>
            LET k == Len(task[t].ras) - (task[t].i - 1)
                left == dc.ctx.t - task[t].at
                share == left \div k
                b == IF share >= 20 THEN share
                     ELSE IF left < 20 THEN left ELSE 20
                began == dc.deadline - in.d.Timeout
            IN  /\ left > 0 /\ task[t].att.ok
                /\ Budget(t) = b
                /\ (in.d.Timeout = 600 /\ Len(task[t].ras) = 4
                    /\ task[t].at = began + (task[t].i - 1) * 150) =>
                       Budget(t) = 150

\* Four candidates under a Timeout of one minute: the first attempt has used
\* up its 15s and the second is given 15s.
C12_Witness ==
    /\ InFlight("main") /\ in.d.Timeout = 600 /\ Len(task["main"].ras) = 4
    /\ task["main"].i = 2 /\ task["main"].at = StartNow + 150
    /\ Budget("main") = 150

\* C12 as first stated: with n addresses resolved and a Timeout T, every
\* attempt is given T / n.
C12_Original ==
    \A t \in Tasks :
        (InFlight(t) /\ in.d.Timeout > 0) =>
            Budget(t) = in.d.Timeout \div Len(dc.addrs)

----------------------------------------------------------------------------
(* Cancellation, under SpecFair: Spec with the scheduling of the goroutines *)
(* and the runtime                                                          *)

\* Every goroutine that can take its next step takes it; the runtime fires a
\* timer that is due; a connect whose context is done returns.  Nothing is
\* assumed of the clock, the caller, or a connect whose context is live.
Fairness ==
    /\ WF_vars(NextFront) /\ WF_vars(EnterSerial) /\ WF_vars(EnterParallel)
    /\ \A t \in Tasks : WF_vars(SerialIter(t))
    /\ \A t \in Tasks : WF_vars(ConnectFail(t) /\ cerr[CtxOf(t)] # NoError)
    /\ WF_vars(TimerFire) /\ WF_vars(OrchTimer)
    /\ \A t \in Racers : WF_vars(OrchRecv(t)) /\ WF_vars(RacerAbandon(t))
    /\ WF_vars(OrchDefer) /\ WF_vars(DialReturn)

\* Longest candidate list of a dial that is cancelled.
MaxCancel == 2

CancelLists ==
    UNION { { [i \in 1..n |-> SRTAddr(f[i], i)] : f \in [1..n -> {"v4", "v6"}] }
            : n \in 1..MaxCancel }

\* Dials with and without DualStack, with and without a Timeout, with the
\* default FallbackDelay and one of 100ms.
InitCancel ==
    /\ now = StartNow
    /\ in \in [d : {Dialer(to, ZeroTime, NilHint, ds, fd) :
                       to \in RaceTimeouts, ds \in BOOLEAN, fd \in {0, 1}},
                ctx : {NoDeadline},
                network : {"srt"},
                trace : {NoTrace},
                address : {"host:9000"},
                lookup : {[addrs |-> l, err |-> NoError] : l \in CancelLists}]
    /\ dc = dcStart
    /\ ln = lnIdle
    /\ sf = sfIdle
    /\ pd = pdIdle
    /\ engineIdle

SpecFair == InitCancel /\ [][Next]_vars /\ Fairness

\* The dial's context was cancelled by the caller or by its deadline while the
\* dial was going on.
Cancelled == log.cancel.by # "none"

\* C13: once the context of the dial is cancelled, by the caller or by the
\* expiry of the effective deadline, the sub-context of every racer is
\* cancelled, of a racer started before and of one started after; the dial
\* then returns; and, no connect succeeding under a cancelled context, it
\* returns an error unless a connect had succeeded before the cancellation.
C13_CancelPropagates ==
    /\ [](cerr["parent"] # NoError => \A t \in Spawned : cerr[t] # NoError)
    /\ []((dc.pc = "done" /\ Cancelled /\ conns.stale = {} /\ ~log.cancel.had)
             => (Failed(dc.err) /\ dc.conn = NoConn))
    /\ (Cancelled ~> dc.pc = "done")

\* The caller cancelled while the primary racer was connecting; the fallback
\* racer was started after that, under a cancelled context; the dial has
\* returned an error.
C13_Witness ==
    /\ dc.pc = "done" /\ log.cancel.by = "caller"
    /\ log.bornDone = {"fallback"}
    /\ cerr["primary"] = "Canceled" /\ cerr["fallback"] = "Canceled"
    /\ Len(log.attempts["primary"]) = 1 /\ log.attempts["fallback"] = <<>>
    /\ Failed(dc.err) /\ dc.conn = NoConn

\* C16: when the primary racer's error is received and the other racer has
\* not reported, a timer that has not fired is set to fire at once, and one
\* that has fired is left as it is; from then on the start of the fallback
\* racer is not waiting for fallbackDelay, and the fallback racer is started.
C16_RaceOnFailure ==
    /\ [][(/\ orch.pc = "select" /\ ~orch.primary.done
           /\ orch'.primary.done /\ orch'.pc = "select") =>
             IF timer.state = "running"
             THEN timer' = [state |-> "running", when |-> now]
             ELSE timer' = timer]_vars
    /\ []((orch.pc = "select" /\ PrimaryFailed /\ "fallback" \notin Spawned) =>
             /\ timer.state \in {"running", "fired"}
             /\ timer.state = "running" => timer.when <= now)
    /\ ((orch.pc = "select" /\ PrimaryFailed) ~> "fallback" \in Spawned)

\* The primary racer failed before fallbackDelay had passed, and the fallback
\* racer is running before it has passed.
C16_Witness ==
    /\ orch.pc = "select" /\ PrimaryFailed
    /\ "fallback" \in Spawned /\ task["fallback"].pc = "connect"
    /\ now - log.raceStart < fallbackDelay(in.d)

----------------------------------------------------------------------------
(* ListenContext (dial.go, lines 487-503) and the SRTListener it returns    *)
(* (Accept and Close)                                                       *)

\* Most connections one listener accepts.
MaxAccepts == 2

EINVPARAM == "EINVPARAM"
errListen == "ListenFailed"
errAccept == "AcceptFailed"
errClosing == "UseOfClosedNetworkConnection"

\* addrs.first(isIPv4): the first candidate that is IPv4, or the first one if
\* none is.
first(addrs) ==
    IF \E i \in 1..Len(addrs) : isIPv4(addrs[i])
    THEN addrs[CHOOSE i \in 1..Len(addrs) :
                  /\ isIPv4(addrs[i])
                  /\ \A j \in 1..(i - 1) : ~isIPv4(addrs[j])]
    ELSE addrs[1]

\* ListenContext binding to the head of the list, whatever its family.
ListenContext_head ==
    /\ ln.pc = "start"
    /\ LET r == resolveAddrList("listen", in.network, in.address, NilHint,
                                in.lookup)
           la == r.addrs[1]
       IN  IF r.err # NoError
           THEN ln' = [ln EXCEPT !.pc = "failed",
                          !.err = OpError("listen", in.network, NilHint, NoAddr,
                                          r.err)]
           ELSE \/ ln' = [ln EXCEPT !.pc = "listening", !.addrs = r.addrs,
                             !.laddr = la, !.fd = "open", !.sockets = @ + 1]
                \/ ln' = [ln EXCEPT !.pc = "failed", !.addrs = r.addrs,
                             !.err = OpError("", in.network, NilHint, la,
                                             errListen)]
    /\ UNCHANGED <<now, in, sf, dc, pd, engineVars>>

\* ListenContext(ctx, network, address): the resolution in listen mode with a
\* nil hint, the choice of the bind address, and listenSRT, which gives a
\* listener or an error that is returned as it is (lines 487-503).  Every
\* candidate being an *SRTAddr, the default case of the type switch is not
\* taken.
ListenContext ==
    /\ ln.pc = "start"
    /\ LET r == resolveAddrList("listen", in.network, in.address, NilHint,
                                in.lookup)
           la == first(r.addrs)
       IN  IF r.err # NoError
           THEN ln' = [ln EXCEPT !.pc = "failed",
                          !.err = OpError("listen", in.network, NilHint, NoAddr,
                                          r.err)]
           ELSE \/ ln' = [ln EXCEPT !.pc = "listening", !.addrs = r.addrs,
                             !.laddr = la, !.fd = "open", !.sockets = @ + 1]
                \/ ln' = [ln EXCEPT !.pc = "failed", !.addrs = r.addrs,
                             !.err = OpError("", in.network, NilHint, la,
                                             errListen)]
    /\ UNCHANGED <<now, in, sf, dc, pd, engineVars>>

\* l.ok(): the listener and its descriptor are there; the listener a failed
\* ListenContext returns is a nil pointer.
ok(l) == l.pc = "listening" /\ l.fd # "none"

\* l.accept(): a new connection with a descriptor of its own, or an error;
\* only an error once the listener is closed.
accept(l) ==
    {[l EXCEPT !.last = [op |-> "accept",
                         err |-> OpError("accept", in.network, NilHint, l.laddr,
                                         IF l.fd = "open" THEN errAccept
                                         ELSE errClosing)]]}
    \cup {[l EXCEPT !.conns = Append(@, "open"),
                    !.last = [op |-> "accept", err |-> NilOpError]] :
             x \in {y \in {1} : l.fd = "open" /\ Len(l.conns) < MaxAccepts}}

\* l.close(): closes the listener's own descriptor.
close(l) ==
    IF l.fd = "open"
    THEN [l EXCEPT !.fd = "closed", !.last = [op |-> "close", err |-> NilOpError]]
    ELSE [l EXCEPT !.last = [op |-> "close",
                             err |-> OpError("close", in.network, NilHint,
                                             l.laddr, errClosing)]]

\* SRTListener.Accept (part_000, lines 219-228)
ListenerAccept ==
    /\ ln.pc # "start"
    /\ IF ~ok(ln)
       THEN ln' = [ln EXCEPT !.last =
                      [op |-> "accept",
                       err |-> OpError("", "", NilHint, NoAddr, EINVPARAM)]]
       ELSE ln' \in accept(ln)
    /\ UNCHANGED <<now, in, sf, dc, pd, engineVars>>

\* A Close that takes the accepted connections down with the listener.
ListenerClose_closesAccepted ==
    /\ ln.pc # "start"
    /\ IF ~ok(ln)
       THEN ln' = [ln EXCEPT !.last =
                      [op |-> "close",
                       err |-> OpError("", "", NilHint, NoAddr, EINVPARAM)]]
       ELSE ln' = [close(ln) EXCEPT !.conns =
                      [i \in 1..Len(ln.conns) |-> "closed"]]
    /\ UNCHANGED <<now, in, sf, dc, pd, engineVars>>

\* SRTListener.Close (part_000, lines 232-240)
ListenerClose ==
    /\ ln.pc # "start"
    /\ IF ~ok(ln)
       THEN ln' = [ln EXCEPT !.last =
                      [op |-> "close",
                       err |-> OpError("", "", NilHint, NoAddr, EINVPARAM)]]
       ELSE ln' = close(ln)
    /\ UNCHANGED <<now, in, sf, dc, pd, engineVars>>

\* The caller closes a connection it was handed by Accept.
ConnClose ==
    /\ \E i \in 1..Len(ln.conns) :
         /\ ln.conns[i] = "open"
         /\ ln' = [ln EXCEPT !.conns[i] = "closed",
                             !.callerClosed = @ \cup {i}]
    /\ UNCHANGED <<now, in, sf, dc, pd, engineVars>>

\* Listen calls on every network and address, with every answer of the name
\* lookup.
InitListen ==
    /\ now = MaxTimeout + 1
    /\ \E network \in Networks :
         in \in [d : {Dialer(0, ZeroTime, NilHint, FALSE, 0)},
                 ctx : {NoDeadline},
                 network : {network},
                 trace : {NoTrace},
                 address : Addresses,
                 lookup : internetAddrList(parseNetwork(network).afnet)]
    /\ dc = dcStart
    /\ ln = lnIdle
    /\ sf = sfIdle
    /\ pd = pdIdle
    /\ engineIdle

NextListen == ListenContext \/ ListenerAccept \/ ListenerClose \/ ConnClose

SpecListen == InitListen /\ [][NextListen]_vars

\* C11: a connection the listener accepted is open unless the caller itself
\* closed it, whatever Accept and Close calls were made on the listener,
\* before and after; in particular after the listener is closed.
C11_ListenerIsolation ==
    \A i \in 1..Len(ln.conns) :
        i \notin ln.callerClosed => ln.conns[i] = "open"

\* Two connections were accepted, the listener was then closed, and both are
\* open.
C11_Witness ==
    /\ ln.fd = "closed" /\ ln.last = [op |-> "close", err |-> NilOpError]
    /\ ln.conns = <<"open", "open">> /\ ln.callerClosed = {}

\* C15: Listen resolves in listen mode: the candidates are the resolver's
\* answer, unfiltered; the listener is bound to the first IPv4 candidate of
\* that answer, or to its first candidate when none is IPv4; a resolution
\* error comes back as an OpError of op "listen" with the network, and no
\* listening socket exists.
C15_ListenBind ==
    /\ ln.pc = "listening" =>
          /\ ln.addrs = in.lookup.addrs /\ in.lookup.err = NoError
          /\ ln.sockets = 1
          /\ \E i \in 1..Len(ln.addrs) :
                /\ ln.laddr = ln.addrs[i]
                /\ \A j \in 1..(i - 1) : ~To4(ln.addrs[j].IP)
                /\ To4(ln.addrs[i].IP)
                   \/ (i = 1 /\ \A j \in 1..Len(ln.addrs) : ~To4(ln.addrs[j].IP))
    /\ (ln.pc # "start" /\ (~ValidNetwork \/ in.lookup.err # NoError)) =>
          /\ ln.pc = "failed" /\ ln.sockets = 0 /\ ln.fd = "none"
          /\ ln.err.Op = "listen" /\ ln.err.Net = in.network
          /\ ln.err.Err = IF ~ValidNetwork THEN errUnknownNetwork
                          ELSE in.lookup.err
    /\ ln.pc = "failed" => ln.sockets = 0 /\ ln.fd = "none"

\* The answer was an IPv6 candidate followed by IPv4 ones: the listener is
\* bound to the second candidate.
C15_Witness ==
    /\ ln.pc = "listening" /\ Len(ln.addrs) = 3
    /\ ln.addrs[1].IP = "v6" /\ ln.addrs[2].IP = "v4"
    /\ ln.laddr = ln.addrs[2]

----------------------------------------------------------------------------
(* The connect hooks of a nettrace.Trace (lines 278-285, 439-449)           *)

\* Dials of at most MaxCancel candidates, with and without DualStack, with
\* and without a Timeout, under every trace a caller can install.
InitTrace ==
    /\ now = StartNow
    /\ in \in [d : {Dialer(to, ZeroTime, NilHint, ds, 0) :
                       to \in RaceTimeouts, ds \in BOOLEAN},
                ctx : {NoDeadline},
                network : {"srt"},
                trace : Traces,
                address : {"host:9000"},
                lookup : {[addrs |-> l, err |-> NoError] : l \in CancelLists}]
    /\ dc = dcStart
    /\ ln = lnIdle
    /\ sf = sfIdle
    /\ pd = pdIdle
    /\ engineIdle

SpecTrace == InitTrace /\ [][Next]_vars

\* The candidates of a task: the fallbacks for the fallback racer, the
\* primaries for the primary racer and for a dialSerial without a race.
ListOf(t) == IF t = "fallback" THEN dc.fallbacks ELSE dc.primaries

\* The events the hooks the caller installed owe to the k-th candidate of task
\* t: a ConnectStart, and a ConnectDone with the error dialSingle returned if
\* it has returned.
EventsOf(t, k) ==
    LET ra == ListOf(t)[k]
        started == k <= Len(log.attempts[t]) \/ InFlight(t)
        ended == k <= Len(log.attempts[t])
        e == log.attempts[t][k].err
        err == IF e = NoError THEN NilOpError
               ELSE OpError("dial", in.network, in.d.LocalAddr, ra, e)
    IN  (IF started /\ in.trace.set /\ in.trace.ConnectStart
         THEN <<[hook |-> "ConnectStart", by |-> t, addr |-> ra,
                 err |-> NilOpError]>>
         ELSE <<>>)
        \o (IF ended /\ in.trace.set /\ in.trace.ConnectDone
            THEN <<[hook |-> "ConnectDone", by |-> t, addr |-> ra, err |-> err]>>
            ELSE <<>>)

RECURSIVE EventsUpTo(_, _)
EventsUpTo(t, k) == IF k = 0 THEN <<>> ELSE EventsUpTo(t, k - 1) \o EventsOf(t, k)

\* The number of candidates task t has called dialSingle for.
Attempted(t) == Len(log.attempts[t]) + (IF InFlight(t) THEN 1 ELSE 0)

\* C22: the trace of the caller is left as it was; no connect hook fires
\* during the resolution, every event being fired by a dialSerial of the
\* dial and none before the dispatch; and the events of each dialSerial are,
\* candidate after candidate in the order of its list, the ConnectStart of the
\* attempt followed, once dialSingle has returned, by one ConnectDone with the
\* address and the error of that attempt (each for a hook that is installed).
C22_TraceHooks ==
    /\ dc.pc \in {"dispatch", "racing", "done"} => dc.trace = in.trace
    /\ \A i \in 1..Len(log.events) : log.events[i].by \in Tasks
    /\ dc.pc \in {"start", "resolve", "dispatch"} => log.events = <<>>
    /\ \A t \in Tasks :
         /\ Attempted(t) <= Len(ListOf(t))
         /\ SelectSeq(log.events, LAMBDA ev : ev.by = t)
               = EventsUpTo(t, Attempted(t))

\* A dial under a trace with both hooks, after a lookup: its dialSerial failed
\* to connect to the first candidate and connected to the second, and the four
\* events are the two pairs.
C22_Witness ==
    /\ dc.pc = "done" /\ dc.lookups > 0 /\ dc.engine = "dialSerial"
    /\ in.trace.set /\ in.trace.ConnectStart /\ in.trace.ConnectDone
    /\ Len(log.events) = 4
    /\ log.events[1].hook = "ConnectStart" /\ log.events[2].hook = "ConnectDone"
    /\ log.events[2].addr = dc.primaries[1]
    /\ log.events[2].err.Err = "ConnectFailed"
    /\ log.events[3].hook = "ConnectStart" /\ log.events[3].addr = dc.primaries[2]
    /\ log.events[4].hook = "ConnectDone" /\ log.events[4].err = NilOpError
    /\ dc.conn.addr = dc.primaries[2]

----------------------------------------------------------------------------
(* Termination of dialParallel and of its racers (lines 327-370)            *)

\* Every connect attempt terminates, with a connection or with an error.
ConnectTerminates == \A t \in Tasks : WF_vars(ConnectOK(t) \/ ConnectFail(t))

\* DualStack dials of at most MaxCancel candidates with a Timeout of 200ms,
\* with the default FallbackDelay and one of 100ms.
InitTerm ==
    /\ now = StartNow
    /\ in \in [d : {Dialer(2, ZeroTime, NilHint, TRUE, fd) : fd \in {0, 1}},
                ctx : {NoDeadline},
                network : {"srt"},
                trace : {NoTrace},
                address : {"host:9000"},
                lookup : {[addrs |-> l, err |-> NoError] : l \in CancelLists}]
    /\ dc = dcStart
    /\ ln = lnIdle
    /\ sf = sfIdle
    /\ pd = pdIdle
    /\ engineIdle

SpecTerm == InitTerm /\ [][Next]_vars /\ Fairness /\ ConnectTerminates

\* Both sub-contexts cancelled, as far as they were made, and the fallback
\* timer not running.
Released ==
    /\ \A t \in Spawned : cerr[t] # NoError
    /\ timer.state # "running"

\* C23: every connect attempt terminating, a dialParallel that was called
\* returns; at its return the sub-contexts it made are cancelled and the
\* fallback timer is not running, and stay so; and after its return every
\* racer it started terminates, none staying blocked in its send on results.
C23_Terminates ==
    /\ (Parallel ~> orch.pc = "returned")
    /\ [](orch.pc = "returned" => Released)
    /\ (orch.pc = "returned"
          ~> \A t \in Spawned : task[t].pc = "done")

\* dialParallel has returned the connection of one racer while the other was
\* still connecting; that racer connected after the return, found returned
\* closed instead of a receiver, closed its connection and terminated.
C23_Witness ==
    /\ orch.pc = "returned" /\ Spawned = Racers
    /\ \A t \in Racers : task[t].pc = "done"
    /\ conns.late # {} /\ conns.open = {orch.conn}
    /\ \A c \in conns.late : \E x \in conns.closed : x.conn = c /\ x.by = c.task
    /\ Released

----------------------------------------------------------------------------
(* The deadline of an attempt and the deadline of the dial (lines 100-122, *)
(* 406-420)                                                                 *)

\* Calls of partialDeadline on their own, over every instant, deadline and
\* count of InitPartial, and the dials with a long Timeout of InitSpread.
SpecBudget == (InitPartial \/ InitSpread) /\ [][Next \/ NextPartial]_vars

\* The candidates task t has not attempted yet, the one in flight included.
NotYetAttempted(t) == Len(ListOf(t)) - Len(log.attempts[t])

\* C24: partialDeadline called with a set deadline later than now and n >= 1
\* returns, without an error, an instant strictly later than now and not later
\* than the deadline; and an attempt of dialSerial in flight was given the
\* result of partialDeadline for the instant of the call, the deadline of the
\* dial and the count of the candidates not yet attempted, which is at least
\* 1: an instant later than the call and not later than the dial's deadline
\* (no deadline at all if the dial has none).
C24_WithinDeadline ==
    /\ (pd.done /\ ~IsZero(pd.deadline) /\ pd.deadline > pd.now /\ pd.n >= 1)
          => (pd.err = NoError /\ pd.now < pd.t /\ pd.t <= pd.deadline)
    /\ \A t \in Tasks :
         InFlight(t) =>
           /\ NotYetAttempted(t) >= 1
           /\ IF dc.ctx.ok
              THEN /\ task[t].att.ok
                   /\ task[t].att.t =
                         partialDeadline(task[t].at, dc.ctx.t,
                                         NotYetAttempted(t)).t
                   /\ task[t].at < task[t].att.t
                   /\ task[t].att.t <= dc.ctx.t
              ELSE task[t].att = NoDeadline

\* A dial with a Timeout of 5s over three candidates: the first attempt failed
\* and the second, started later with two candidates left, is in flight with
\* a deadline 2s after its start, before the deadline of the dial; a sane
\* minimum granted whatever remains would have exceeded it for the third.
C24_Witness ==
    /\ in.d.Timeout = 50 /\ dc.ctx.ok /\ dc.engine = "dialSerial"
    /\ Len(dc.primaries) = 3
    /\ InFlight("main") /\ task["main"].i = 2
    /\ task["main"].at > StartNow
    /\ task["main"].att.t = task["main"].at + saneMinimum
    /\ task["main"].att.t < dc.ctx.t

----------------------------------------------------------------------------
(* sendFile (part_000, lines 307-324) and poll.SendFile                     *)
(* (internal/poll/sendfile_srtapi.go, lines 16-54).  Counts are bytes.      *)

\* maxSendfileSize: 4 << 20
maxSendfileSize == 4194304

\* 1 << 62, "copy until EOF": beyond every reader there is; here the largest
\* count the checker's integers hold.
copyUntilEOF == 2147483647

\* Whole chunks in the longest reader.
MaxChunks == 2

\* The bytes of a partial transfer.
PartialWrite == 1048576

EASYNCSND == "EASYNCSND"
ECONNLOST == "ECONNLOST"
EPIPE == "EPIPE"

\* The errors that are a syscall.Errno.
Errnos == {EPIPE}

\* What srtapi.Sendfile can report besides nil.
SendErrors == {EASYNCSND, ECONNLOST, EPIPE}

\* wrapSyscallError(name, err): an Errno wrapped with the name of the call,
\* any other error and nil as they are.
wrapSyscallError(name, err) ==
    [Syscall |-> IF err \in Errnos THEN name ELSE "", Err |-> err]

\* The request for all that remains, whatever its size.
chunk_whole(remain) == remain

\* n := maxSendfileSize; if int64(n) > remain { n = int(remain) }
\* (sendfile_srtapi.go, lines 31-34)
chunk(remain) == IF maxSendfileSize > remain THEN remain ELSE maxSendfileSize

\* The bytes counted for a report of n: if n > 0 (lines 36-39).
progress(n) == IF n > 0 THEN n ELSE 0

\* lr.N left as it was.
limitAfter_unchanged(remain, written) == remain

\* lr.N = remain - written (part_000, line 321)
limitAfter(remain, written) == remain - written

\* The lengths of the readers and the limits of the LimitedReaders.
Sizes ==
    {0, 1, maxSendfileSize, maxSendfileSize + 1,
     MaxChunks * maxSendfileSize + 1}
Limits == {0 - 1, 0} \cup Sizes

\* The counts srtapi.Sendfile can report when asked for n bytes of a reader
\* with `left` bytes left: a negative one, none, a part, all it can.
Counts(n, left) ==
    LET most == IF n < left THEN n ELSE left
    IN  {0 - 1, 0, most} \cup {c \in {PartialWrite} : c < most}

\* sendFile up to the call of poll.SendFile (part_000, lines 307-318).
sendFileEnter ==
    /\ sf.pc = "start"
    /\ sf' = IF sf.limited /\ sf.N <= 0
             THEN [sf EXCEPT !.pc = "done",
                             !.ret = [written |-> 0,
                                      err |-> [Syscall |-> "", Err |-> NoError],
                                      handled |-> TRUE]]
             ELSE LET remain == IF sf.limited THEN sf.N ELSE copyUntilEOF
                  IN  [sf EXCEPT !.pc = "lock", !.remain0 = remain,
                                 !.remain = remain]
    /\ UNCHANGED <<now, in, ln, dc, pd, engineVars>>

\* dstFD.writeLock() (sendfile_srtapi.go, lines 22-25)
writeLock ==
    /\ sf.pc = "lock"
    /\ \/ sf' = [sf EXCEPT !.pc = "loop", !.lock = "held"]
       \/ sf' = [sf EXCEPT !.pc = "return", !.lock = "failed",
                           !.written = 0, !.err = errClosing]
    /\ UNCHANGED <<now, in, ln, dc, pd, engineVars>>

\* The head of the loop and the call of srtapi.Sendfile (lines 30-35).
LoopCall ==
    /\ sf.pc = "loop"
    /\ sf' = IF sf.remain > 0
             THEN [sf EXCEPT !.pc = "sendfile", !.n = chunk(sf.remain),
                             !.touched = TRUE, !.last = NoError,
                             !.wait = "none"]
             ELSE [sf EXCEPT !.pc = "return"]
    /\ UNCHANGED <<now, in, ln, dc, pd, engineVars>>

\* srtapi.Sendfile returns (n, err1); the rest of the iteration up to
\* waitWrite (lines 35-51).
SendfileReturn ==
    /\ sf.pc = "sendfile"
    /\ \E n \in Counts(sf.n, sf.left), err1 \in {NoError} \cup SendErrors :
         LET st == [sf EXCEPT !.written = @ + progress(n),
                              !.remain = @ - progress(n),
                              !.left = @ - (IF n > 0 THEN n ELSE 0),
                              !.sum = @ + (IF n > 0 THEN n ELSE 0),
                              !.last = err1]
         IN  sf' = IF n = 0 /\ err1 = NoError THEN [st EXCEPT !.pc = "return"]
                   ELSE IF err1 = EASYNCSND THEN [st EXCEPT !.pc = "wait"]
                   ELSE IF err1 # NoError
                   THEN [st EXCEPT !.pc = "return", !.err = err1]
                   ELSE [st EXCEPT !.pc = "loop"]
    /\ UNCHANGED <<now, in, ln, dc, pd, engineVars>>

\* dstFD.pd.waitWrite() after EASYNCSND (lines 43-51)
waitWrite ==
    /\ sf.pc = "wait"
    /\ \/ sf' = [sf EXCEPT !.pc = "loop", !.wait = "ok", !.retried = TRUE]
       \/ sf' = [sf EXCEPT !.pc = "return", !.wait = "failed",
                           !.err = ErrTimeout]
    /\ UNCHANGED <<now, in, ln, dc, pd, engineVars>>

\* poll.SendFile returns, the deferred writeUnlock first (lines 26, 53), and
\* sendFile returns (part_000, lines 320-323).
sendFileReturn ==
    /\ sf.pc = "return"
    /\ sf' = [sf EXCEPT !.pc = "done",
                        !.lock = IF @ = "held" THEN "released" ELSE @,
                        !.N = IF sf.limited
                              THEN limitAfter(sf.remain0, sf.written) ELSE @,
                        !.ret = [written |-> sf.written,
                                 err |-> wrapSyscallError("sendfile", sf.err),
                                 handled |-> sf.written > 0]]
    /\ UNCHANGED <<now, in, ln, dc, pd, engineVars>>

\* sendFile called with a reader of some length: a LimitedReader around it
\* with some limit N, or the reader itself.
InitSendFile ==
    /\ now = StartNow
    /\ in = [d |-> Dialer(0, ZeroTime, NilHint, FALSE, 0), ctx |-> NoDeadline,
             network |-> "srt", address |-> "host:9000", trace |-> NoTrace,
             lookup |-> [addrs |-> <<SRTAddr("v4", 1)>>, err |-> NoError]]
    /\ dc = [dcStart EXCEPT !.pc = "done"]
    /\ ln = lnIdle
    /\ pd = [pdIdle EXCEPT !.done = TRUE]
    /\ engineIdle
    /\ \E size \in Sizes :
         \/ \E limit \in Limits :
              sf = [sfIdle EXCEPT !.pc = "start", !.limited = TRUE,
                                  !.N0 = limit, !.N = limit, !.left = size]
         \/ sf = [sfIdle EXCEPT !.pc = "start", !.left = size]

NextSendFile ==
    \/ sendFileEnter
    \/ writeLock
    \/ LoopCall
    \/ SendfileReturn
    \/ waitWrite
    \/ sendFileReturn

SpecSendFile == InitSendFile /\ [][NextSendFile]_vars

\* poll.SendFile has been called and sendFile has not returned yet.
InSendFile == sf.pc \in {"loop", "sendfile", "wait", "return"}

\* C25: in poll.SendFile written + remain stays the remain it was called with;
\* each request to the provider is for at least one byte, at most remain and
\* at most 4 MiB; written is the sum of the positive counts the provider
\* reported, and that is what is returned, with or without an error; a write
\* lock that cannot be taken gives 0 and the lock's error with no request
\* made; and after EASYNCSND and a successful wait no error is set and the
\* loop goes on (it ends only if nothing remains).
C25_SendFileLoop ==
    /\ InSendFile => sf.written + sf.remain = sf.remain0
    /\ sf.pc = "sendfile" =>
          /\ sf.n >= 1 /\ sf.n <= sf.remain /\ sf.n <= maxSendfileSize
          /\ sf.lock = "held"
    /\ sf.written = sf.sum
    /\ sf.pc = "done" /\ sf.lock # "none" => sf.ret.written = sf.sum
    /\ sf.lock = "failed" =>
          /\ ~sf.touched /\ sf.written = 0 /\ sf.err = errClosing
          /\ sf.pc = "done" => sf.ret.written = 0 /\ sf.ret.err.Err = errClosing
    /\ (sf.last = EASYNCSND /\ sf.wait = "ok") =>
          /\ sf.err = NoError
          /\ sf.pc = "loop" \/ sf.remain <= 0
          /\ sf.pc = "done" => sf.ret.err.Err = NoError

\* More than one chunk went out, a would-block result was waited out and
\* retried, and a later request ended with an error: what was sent is
\* returned with it.
C25_Witness ==
    /\ sf.pc = "done" /\ sf.retried
    /\ sf.ret.err.Err = ECONNLOST
    /\ sf.ret.written = maxSendfileSize + PartialWrite
    /\ sf.sum = sf.ret.written

\* C26: sendFile reports handled = false only if no byte was copied; a
\* LimitedReader with N <= 0 gives (0, nil, handled) with neither the write
\* lock taken nor the provider called, N left as it was; and at the return
\* the N of a LimitedReader is what it was less the bytes written.
C26_Handled ==
    sf.pc = "done" =>
        /\ ~sf.ret.handled => sf.ret.written = 0 /\ sf.sum = 0
        /\ (sf.limited /\ sf.N0 <= 0) =>
              /\ sf.ret = [written |-> 0,
                           err |-> [Syscall |-> "", Err |-> NoError],
                           handled |-> TRUE]
              /\ ~sf.touched /\ sf.lock = "none" /\ sf.N = sf.N0
        /\ sf.limited => sf.N = sf.N0 - sf.ret.written

\* A LimitedReader of 4 MiB + 1 bytes: one whole chunk went out, the request
\* for the last byte failed, and N is 1.
C26_Witness ==
    /\ sf.pc = "done" /\ sf.limited /\ sf.N0 = maxSendfileSize + 1
    /\ sf.ret.written = maxSendfileSize /\ sf.ret.handled
    /\ sf.ret.err = [Syscall |-> "sendfile", Err |-> EPIPE]
    /\ sf.N = 1

====
